---- MODULE Spec2Model ----
(***************************************************************************)
(* Log file data access and analysis service: the loader, the record      *)
(* store with its three indexes, the query engine, the aggregator, the    *)
(* paginator and the request handlers in front of them.                    *)
(*                                                                         *)
(* Text is modelled as a sequence of tokens.  A token is a tab, a space,   *)
(* a word, or a complete "YYYY-MM-DD HH:MM:SS" text ("T1", "T2", "T3").    *)
(* File names and record ids are sequences of character codes, so that     *)
(* sorting and id formatting are computed and not assumed.                 *)
(***************************************************************************)
EXTENDS Integers, Sequences, FiniteSets, TLC

VARIABLES
    disk,             \* the log directory: file stem -> [lines, fault]
    logs,             \* LogService.logs
    log_index,        \* LogService.log_index
    component_index,  \* LogService.component_index
    level_index,      \* LogService.level_index
    pc,               \* the statement of _load_logs/_parse_log_file to run next
    log_files,        \* the files of the for loop of _load_logs still to parse
    file_path,        \* stem of the file being parsed (Some) or None
    line_num,         \* enumerate() index of the next line of that file
    log_entry,        \* the entry being appended (Some) or None
    constructed,      \* LogService.__init__ has returned
    last_load,        \* "none", "completed" or "raised": how the last load ended
    old,              \* the store as it was when the running reload started
    resp              \* the last result returned to a caller

vars == <<disk, logs, log_index, component_index, level_index, pc, log_files,
          file_path, line_num, log_entry, constructed, last_load, old, resp>>

store_vars == <<logs, log_index, component_index, level_index>>

-----------------------------------------------------------------------------
(* Bounds of the model. *)

\* Largest number of lines in the whole directory.
MaxLines == 2

\* Largest list handed to paginate on its own, and its largest page and size.
MaxItems == 5
MaxPage == 3
MaxPageSizeArg == 10

-----------------------------------------------------------------------------
(* Optional values: None is the empty sequence, Some(v) a one-element one. *)

None == << >>
Some(v) == <<v>>
IsNone(o) == o = << >>
Val(o) == o[1]

-----------------------------------------------------------------------------
(* Text. *)

TAB == "\t"
SP == " "
Whitespace == {TAB, SP}

\* The texts strptime accepts for "%Y-%m-%d %H:%M:%S", with the instant each denotes.
TimestampTexts == {"T1", "T2", "T3"}
ClockOf(tok) == CASE tok = "T1" -> 1 [] tok = "T2" -> 2 [] tok = "T3" -> 3

RECURSIVE LStrip(_)
LStrip(s) == IF s # << >> /\ Head(s) \in Whitespace THEN LStrip(Tail(s)) ELSE s

RECURSIVE RStrip(_)
RStrip(s) ==
    IF s # << >> /\ s[Len(s)] \in Whitespace
    THEN RStrip(SubSeq(s, 1, Len(s) - 1))
    ELSE s

\* str.strip()
Strip(s) == RStrip(LStrip(s))

\* str.split('\t'): every tab separates, so n tabs give n + 1 parts.
RECURSIVE SplitFrom(_, _, _)
SplitFrom(s, i, cur) ==
    IF i > Len(s) THEN <<cur>>
    ELSE IF s[i] = TAB THEN <<cur>> \o SplitFrom(s, i + 1, << >>)
    ELSE SplitFrom(s, i + 1, Append(cur, s[i]))

Split(s) == SplitFrom(s, 1, << >>)

\* datetime.strptime(text, "%Y-%m-%d %H:%M:%S"): the whole text must match.
StrptimeOk(text) == Len(text) = 1 /\ text[1] \in TimestampTexts
Strptime(text) == ClockOf(text[1])

\* Decimal digits of n as character codes.
RECURSIVE Digits(_)
Digits(n) == IF n < 10 THEN <<48 + n>> ELSE Digits(n \div 10) \o <<48 + (n % 10)>>

\* FormatLogId without the line number.
FormatLogId_NoLineNum(filename, n) == filename \o <<95>>

\* FormatLogId numbering the lines from 1.
FormatLogId_OneBased(filename, n) == filename \o <<95>> \o Digits(n + 1)

\* f"{filename}_{line_num}"
FormatLogId(filename, n) == filename \o <<95>> \o Digits(n)

-----------------------------------------------------------------------------
(* Line parser. *)

LogEntry(log_id, timestamp, level, component, message) ==
    [log_id |-> log_id, timestamp |-> timestamp, level |-> level,
     component |-> component, message |-> message]

\* LogService._parse_log_line: [ok |-> TRUE, entry] or [ok |-> FALSE] (ValueError).
_parse_log_line(line, filename, n) ==
    LET parts == Split(line) IN
    IF Len(parts) < 4 THEN [ok |-> FALSE, error |-> "fields"]
    ELSE IF ~StrptimeOk(parts[1]) THEN [ok |-> FALSE, error |-> "timestamp"]
    ELSE [ok |-> TRUE,
          entry |-> LogEntry(FormatLogId(filename, n), Strptime(parts[1]),
                             Strip(parts[2]), Strip(parts[3]), Strip(parts[4]))]

-----------------------------------------------------------------------------
(* The log directory. *)

\* File stems "a" and "a_0" as character codes; the files are a.log and a_0.log.
Stems == {<<97>>, <<97, 95, 48>>}

\* Path.name of the file with this stem: the stem followed by ".log".
NameOf(stem) == stem \o <<46, 108, 111, 103>>

\* The lines a file may hold (without their newline).
LineCatalogue ==
    { <<"T1", TAB, "INFO", TAB, "Auth", TAB, "m">>,
      <<"T2", TAB, SP, "ERROR", TAB, "Pay", SP, TAB, "m", TAB, "n">>,
      <<"T3", TAB, TAB, TAB, "m">>,
      << >>,
      <<SP>>,
      <<"T1", TAB, "INFO", TAB, "Auth">>,
      <<"x", TAB, "INFO", TAB, "Auth", TAB, "m">>,
      <<"T3", TAB, "INFO", TAB, "Pay", TAB>> }

\* How reading a file ends: "none" at end of file, "open" when open() raises
\* IOError, "io" when a read after the listed lines raises IOError, "decode"
\* when a read after the listed lines raises UnicodeDecodeError.
Faults == {"none", "open", "io", "decode"}

FilesOfLen(n) ==
    { [lines |-> l, fault |-> f] : l \in [1..n -> LineCatalogue], f \in Faults \ {"open"} }
        \cup (IF n = 0 THEN { [lines |-> << >>, fault |-> "open"] } ELSE {})

FilesUpTo(n) == UNION { FilesOfLen(k) : k \in 0..n }

\* Directories with none, one or both of the files, MaxLines lines in all.
Disks ==
    { << >> }
        \cup UNION { { [s \in {stem} |-> f] : f \in FilesUpTo(MaxLines) } : stem \in Stems }
        \cup UNION { { [s \in Stems |-> IF s = <<97>> THEN fa ELSE fb] :
                         fa \in FilesOfLen(k), fb \in FilesUpTo(MaxLines - k) } :
                     k \in 0..MaxLines }

\* a < b for sequences of character codes, as Python compares strings.
RECURSIVE LexLess(_, _)
LexLess(a, b) ==
    IF b = << >> THEN FALSE
    ELSE IF a = << >> THEN TRUE
    ELSE IF Head(a) # Head(b) THEN Head(a) < Head(b)
    ELSE LexLess(Tail(a), Tail(b))

\* SortedFiles without the sort: the files as the directory lists them, here
\* the greatest name first.
RECURSIVE SortedFiles_Unsorted(_)
SortedFiles_Unsorted(S) ==
    IF S = {} THEN << >>
    ELSE LET first == CHOOSE s \in S :
                          \A t \in S \ {s} : LexLess(NameOf(t), NameOf(s))
         IN <<first>> \o SortedFiles_Unsorted(S \ {first})

\* sorted(Path(dir).glob("*.log")), as the sequence of the files' stems.
RECURSIVE SortedFiles(_)
SortedFiles(S) ==
    IF S = {} THEN << >>
    ELSE LET first == CHOOSE s \in S :
                          \A t \in S \ {s} : LexLess(NameOf(s), NameOf(t))
         IN <<first>> \o SortedFiles(S \ {first})

-----------------------------------------------------------------------------
(* Dictionaries: functions with a finite domain. *)

EmptyDict == << >>

DictSet(d, k, v) == [x \in (DOMAIN d) \cup {k} |-> IF x = k THEN v ELSE d[x]]

\* dict.get(k)
DictGet(d, k) == IF k \in DOMAIN d THEN Some(d[k]) ELSE None

\* defaultdict(list)[k].append(v)
DictAppend(d, k, v) ==
    DictSet(d, k, Append(IF k \in DOMAIN d THEN d[k] ELSE << >>, v))

Store == [logs |-> logs, log_index |-> log_index,
          component_index |-> component_index, level_index |-> level_index]

-----------------------------------------------------------------------------
(* LogService.__init__: the fields before _load_logs runs. *)

Init ==
    /\ disk \in Disks
    /\ logs = << >>
    /\ log_index = EmptyDict
    /\ component_index = EmptyDict
    /\ level_index = EmptyDict
    /\ pc = "clear_logs"
    /\ log_files = << >>
    /\ file_path = None
    /\ line_num = 0
    /\ log_entry = None
    /\ constructed = FALSE
    /\ last_load = "none"
    /\ old = None
    /\ resp = [op |-> "none"]

-----------------------------------------------------------------------------
(* LogService._load_logs and _parse_log_file, one statement per action. *)

\* ClearLogs leaving the list as it is.
ClearLogs_NoClear ==
    /\ pc = "clear_logs"
    /\ logs' = logs
    /\ pc' = "clear_log_index"
    /\ UNCHANGED <<disk, log_index, component_index, level_index, log_files,
                   file_path, line_num, log_entry, constructed, last_load, old, resp>>

ClearLogs ==
    /\ pc = "clear_logs"
    /\ logs' = << >>
    /\ pc' = "clear_log_index"
    /\ UNCHANGED <<disk, log_index, component_index, level_index, log_files,
                   file_path, line_num, log_entry, constructed, last_load, old, resp>>

ClearLogIndex ==
    /\ pc = "clear_log_index"
    /\ log_index' = EmptyDict
    /\ pc' = "clear_component_index"
    /\ UNCHANGED <<disk, logs, component_index, level_index, log_files,
                   file_path, line_num, log_entry, constructed, last_load, old, resp>>

\* ClearComponentIndex leaving the index as it is.
ClearComponentIndex_NoClear ==
    /\ pc = "clear_component_index"
    /\ component_index' = component_index
    /\ pc' = "clear_level_index"
    /\ UNCHANGED <<disk, logs, log_index, level_index, log_files,
                   file_path, line_num, log_entry, constructed, last_load, old, resp>>

ClearComponentIndex ==
    /\ pc = "clear_component_index"
    /\ component_index' = EmptyDict
    /\ pc' = "clear_level_index"
    /\ UNCHANGED <<disk, logs, log_index, level_index, log_files,
                   file_path, line_num, log_entry, constructed, last_load, old, resp>>

ClearLevelIndex ==
    /\ pc = "clear_level_index"
    /\ level_index' = EmptyDict
    /\ pc' = "glob"
    /\ UNCHANGED <<disk, logs, log_index, component_index, log_files,
                   file_path, line_num, log_entry, constructed, last_load, old, resp>>

Glob ==
    /\ pc = "glob"
    /\ log_files' = SortedFiles(DOMAIN disk)
    /\ pc' = "next_file"
    /\ UNCHANGED <<disk, store_vars, file_path, line_num, log_entry,
                   constructed, last_load, old, resp>>

\* The for loop of _load_logs: the next file, or the end of the load.
NextFile ==
    /\ pc = "next_file"
    /\ IF log_files = << >>
       THEN /\ pc' = "idle"
            /\ last_load' = "completed"
            /\ constructed' = TRUE
            /\ UNCHANGED <<log_files, file_path>>
       ELSE /\ file_path' = Some(Head(log_files))
            /\ log_files' = Tail(log_files)
            /\ pc' = "open"
            /\ UNCHANGED <<last_load, constructed>>
    /\ line_num' = 0
    /\ UNCHANGED <<disk, store_vars, log_entry, old, resp>>

\* open(file_path): an IOError is caught, reported, and the file is left.
OpenFile ==
    /\ pc = "open"
    /\ pc' = IF disk[Val(file_path)].fault = "open" THEN "next_file" ELSE "read"
    /\ UNCHANGED <<disk, store_vars, log_files, file_path, line_num, log_entry,
                   constructed, last_load, old, resp>>

\* An exception leaves _load_logs: __init__ fails, or reload_logs raises.
Raised ==
    /\ pc' = IF constructed THEN "idle" ELSE "failed"
    /\ last_load' = "raised"

\* ReadLine with the ValueError of a malformed line ending the file's loop.
ReadLine_StopsAtBadLine ==
    /\ pc = "read"
    /\ LET file == disk[Val(file_path)] IN
       IF line_num >= Len(file.lines)
       THEN /\ IF file.fault = "decode"
               THEN Raised
               ELSE pc' = "next_file" /\ UNCHANGED last_load
            /\ UNCHANGED <<line_num, log_entry>>
       ELSE LET line == Strip(file.lines[line_num + 1])
                parsed == _parse_log_line(line, Val(file_path), line_num)
            IN /\ line_num' = line_num + 1
               /\ UNCHANGED last_load
               /\ IF line = << >> THEN UNCHANGED <<log_entry, pc>>
                  ELSE IF parsed.ok
                  THEN log_entry' = Some(parsed.entry) /\ pc' = "append"
                  ELSE pc' = "next_file" /\ UNCHANGED log_entry
    /\ UNCHANGED <<disk, store_vars, log_files, file_path, constructed, old, resp>>

\* One turn of "for line_num, line in enumerate(f)" up to the append.
ReadLine ==
    /\ pc = "read"
    /\ LET file == disk[Val(file_path)] IN
       IF line_num >= Len(file.lines)
       THEN /\ IF file.fault = "decode"
               THEN Raised
               ELSE pc' = "next_file" /\ UNCHANGED last_load
            /\ UNCHANGED <<line_num, log_entry>>
       ELSE LET line == Strip(file.lines[line_num + 1])
                parsed == _parse_log_line(line, Val(file_path), line_num)
            IN /\ line_num' = line_num + 1
               /\ UNCHANGED last_load
               /\ IF line # << >> /\ parsed.ok
                  THEN log_entry' = Some(parsed.entry) /\ pc' = "append"
                  ELSE UNCHANGED <<log_entry, pc>>
    /\ UNCHANGED <<disk, store_vars, log_files, file_path, constructed, old, resp>>

AppendLogs ==
    /\ pc = "append"
    /\ logs' = Append(logs, Val(log_entry))
    /\ pc' = "index_id"
    /\ UNCHANGED <<disk, log_index, component_index, level_index, log_files,
                   file_path, line_num, log_entry, constructed, last_load, old, resp>>

IndexId ==
    /\ pc = "index_id"
    /\ log_index' = DictSet(log_index, Val(log_entry).log_id, Val(log_entry))
    /\ pc' = "index_component"
    /\ UNCHANGED <<disk, logs, component_index, level_index, log_files,
                   file_path, line_num, log_entry, constructed, last_load, old, resp>>

IndexComponent ==
    /\ pc = "index_component"
    /\ component_index' =
           DictAppend(component_index, Val(log_entry).component, Val(log_entry))
    /\ pc' = "index_level"
    /\ UNCHANGED <<disk, logs, log_index, level_index, log_files,
                   file_path, line_num, log_entry, constructed, last_load, old, resp>>

IndexLevel ==
    /\ pc = "index_level"
    /\ level_index' = DictAppend(level_index, Val(log_entry).level, Val(log_entry))
    /\ pc' = "read"
    /\ UNCHANGED <<disk, logs, log_index, component_index, log_files,
                   file_path, line_num, log_entry, constructed, last_load, old, resp>>

Load ==
    \/ ClearLogs
    \/ ClearLogIndex
    \/ ClearComponentIndex
    \/ ClearLevelIndex
    \/ Glob
    \/ NextFile
    \/ OpenFile
    \/ ReadLine
    \/ AppendLogs
    \/ IndexId
    \/ IndexComponent
    \/ IndexLevel

\* LogService.reload_logs, called once the service exists and no load runs.
ReloadLogs ==
    /\ constructed
    /\ pc = "idle"
    /\ pc' = "clear_logs"
    /\ old' = Some(Store)
    /\ resp' = [op |-> "reload_logs"]
    /\ UNCHANGED <<disk, store_vars, log_files, file_path, line_num, log_entry,
                   constructed, last_load>>

\* What the directory holds after its log files were rotated: a.log alone,
\* readable, with at most one line.
RotatedDisks ==
    { d \in Disks : /\ DOMAIN d = {<<97>>}
                    /\ d[<<97>>].fault = "none"
                    /\ Len(d[<<97>>].lines) <= 1 }

\* The files of the directory are replaced while no load runs; the store
\* keeps what it loaded until reload_logs is called.
FilesReplaced ==
    /\ constructed
    /\ pc = "idle"
    /\ \E d \in RotatedDisks \ {disk} : disk' = d
    /\ UNCHANGED <<store_vars, pc, log_files, file_path, line_num, log_entry,
                   constructed, last_load, old, resp>>

-----------------------------------------------------------------------------
(* Query engine, aggregator and paginator: LogService's read methods. *)

\* TruthyStr as "is not None": the empty string counts as given.
TruthyStr_NotNone(o) == ~IsNone(o)

\* Python truth of an Optional[str]: None and "" are false.
TruthyStr(o) == ~IsNone(o) /\ Val(o) # << >>

\* Python truth of an Optional[datetime]: only None is false.
TruthyTime(o) == ~IsNone(o)

\* [x for x in items if test(x)] for the four tests of filter_logs.
ByLevel(items, level) ==
    LET Test(x) == x.level = level IN SelectSeq(items, Test)

ByComponent(items, component) ==
    LET Test(x) == x.component = component IN SelectSeq(items, Test)

FromTime(items, start_time) ==
    LET Test(x) == x.timestamp >= start_time IN SelectSeq(items, Test)

\* UntilTime with the end bound exclusive.
UntilTime_Exclusive(items, end_time) ==
    LET Test(x) == x.timestamp < end_time IN SelectSeq(items, Test)

UntilTime(items, end_time) ==
    LET Test(x) == x.timestamp <= end_time IN SelectSeq(items, Test)

\* LogService.filter_logs over the list `all` (self.logs.copy()).
filter_logs(all, level, component, start_time, end_time) ==
    LET f1 == IF TruthyStr(level) THEN ByLevel(all, Val(level)) ELSE all
        f2 == IF TruthyStr(component) THEN ByComponent(f1, Val(component)) ELSE f1
        f3 == IF TruthyTime(start_time) THEN FromTime(f2, Val(start_time)) ELSE f2
        f4 == IF TruthyTime(end_time) THEN UntilTime(f3, Val(end_time)) ELSE f3
    IN f4

\* DictInc storing 1 instead of adding 1.
DictInc_SetOne(d, k) == DictSet(d, k, 1)

\* defaultdict(int)[k] += 1
DictInc(d, k) == DictSet(d, k, (IF k \in DOMAIN d THEN d[k] ELSE 0) + 1)

\* The counting loop of get_statistics.
RECURSIVE LevelCounts(_)
LevelCounts(items) ==
    IF items = << >> THEN EmptyDict
    ELSE DictInc(LevelCounts(SubSeq(items, 1, Len(items) - 1)), items[Len(items)].level)

RECURSIVE ComponentCounts(_)
ComponentCounts(items) ==
    IF items = << >> THEN EmptyDict
    ELSE DictInc(ComponentCounts(SubSeq(items, 1, Len(items) - 1)),
                 items[Len(items)].component)

\* Insert x into the sorted list s after every element with a key <= its own.
RECURSIVE InsertByTimestamp(_, _)
InsertByTimestamp(s, x) ==
    IF s = << >> THEN <<x>>
    ELSE IF s[Len(s)].timestamp <= x.timestamp THEN Append(s, x)
    ELSE Append(InsertByTimestamp(SubSeq(s, 1, Len(s) - 1), x), s[Len(s)])

\* SortedByTimestamp leaving the list in load order.
SortedByTimestamp_Unsorted(items) == items

\* sorted(items, key=lambda x: x.timestamp): a stable sort.
RECURSIVE SortedByTimestamp(_)
SortedByTimestamp(items) ==
    IF items = << >> THEN << >>
    ELSE InsertByTimestamp(SortedByTimestamp(SubSeq(items, 1, Len(items) - 1)),
                           items[Len(items)])

\* LogService.get_statistics over the list `all`.
get_statistics(all, start_time, end_time) ==
    LET filtered_logs == filter_logs(all, None, None, start_time, end_time)
        sorted_logs == SortedByTimestamp(filtered_logs)
    IN [total_entries |-> Len(filtered_logs),
        level_counts |-> LevelCounts(filtered_logs),
        component_counts |-> ComponentCounts(filtered_logs),
        time_range |->
            IF filtered_logs # << >>
            THEN [earliest |-> Some(sorted_logs[1].timestamp),
                  latest |-> Some(sorted_logs[Len(sorted_logs)].timestamp)]
            ELSE [earliest |-> None, latest |-> None]]

Range(f) == { f[x] : x \in DOMAIN f }

Min(a, b) == IF a < b THEN a ELSE b
Max(a, b) == IF a > b THEN a ELSE b

\* A slice bound as list slicing reads it: negative bounds count from the end,
\* and every bound is clipped to 0..len.
SliceBound(i, len) == IF i < 0 THEN Max(i + len, 0) ELSE Min(i, len)

\* items[start_idx:end_idx]
Slice(items, start_idx, end_idx) ==
    SubSeq(items, SliceBound(start_idx, Len(items)) + 1,
           SliceBound(end_idx, Len(items)))

\* paginate with total_pages rounded down.
paginate_FloorPages(items, page, page_size) ==
    LET total_pages == Len(items) \div page_size
        start_idx == (page - 1) * page_size
        end_idx == start_idx + page_size
    IN [items |-> Slice(items, start_idx, end_idx), total_pages |-> total_pages]

\* LogService.paginate
paginate(items, page, page_size) ==
    LET total_pages == (Len(items) + page_size - 1) \div page_size
        start_idx == (page - 1) * page_size
        end_idx == start_idx + page_size
    IN [items |-> Slice(items, start_idx, end_idx), total_pages |-> total_pages]

\* LogService.get_log_by_id
get_log_by_id(index, log_id) == DictGet(index, log_id)

-----------------------------------------------------------------------------
(* Configuration and request validation. *)

MAX_PAGE_SIZE == 200
DEFAULT_PAGE_SIZE == 50

\* utils.parse_timestamp: [ok |-> TRUE, value] or [ok |-> FALSE] (ValueError).
parse_timestamp(timestamp_str) ==
    IF StrptimeOk(Strip(timestamp_str))
    THEN [ok |-> TRUE, value |-> Strptime(Strip(timestamp_str))]
    ELSE [ok |-> FALSE, value |-> 0]

\* validate_page_size without the cap.
validate_page_size_NoCap(page_size, max_page_size) ==
    IF page_size < 1 THEN [ok |-> FALSE, value |-> 0]
    ELSE [ok |-> TRUE, value |-> page_size]

\* utils.validate_page_size
validate_page_size(page_size, max_page_size) ==
    IF page_size < 1 THEN [ok |-> FALSE, value |-> 0]
    ELSE IF page_size > max_page_size THEN [ok |-> TRUE, value |-> max_page_size]
    ELSE [ok |-> TRUE, value |-> page_size]

\* utils.validate_page_number
validate_page_number(page) ==
    IF page < 1 THEN [ok |-> FALSE, value |-> 0] ELSE [ok |-> TRUE, value |-> page]

\* Query(1, ge=1) and Query(DEFAULT_PAGE_SIZE, ge=1): the declared constraints
\* the framework enforces before the handler body runs (a failure is a 422).
QueryConstraints(page, page_size) == page >= 1 /\ page_size >= 1

\* "if text: try parse_timestamp(text) except ValueError: raise HTTPException(400)"
ParseBound(text) ==
    IF TruthyStr(text)
    THEN LET r == parse_timestamp(Val(text)) IN
         IF r.ok THEN [ok |-> TRUE, value |-> Some(r.value)]
         ELSE [ok |-> FALSE, value |-> None]
    ELSE [ok |-> TRUE, value |-> None]

\* RangeInverted rejecting equal bounds too.
RangeInverted_OrEqual(start_dt, end_dt) ==
    TruthyTime(start_dt) /\ TruthyTime(end_dt) /\ Val(start_dt) >= Val(end_dt)

\* "if start_dt and end_dt and start_dt > end_dt"
RangeInverted(start_dt, end_dt) ==
    TruthyTime(start_dt) /\ TruthyTime(end_dt) /\ Val(start_dt) > Val(end_dt)

Reply(status, body, calls) == [status |-> status, body |-> body, calls |-> calls]

NoBody == [detail |-> "error"]

-----------------------------------------------------------------------------
(* Request handlers of main.py: the reply and the service calls made. *)

\* GET /logs
get_logs(all, level, component, start_time, end_time, page_q, page_size_q) ==
    LET page0 == IF IsNone(page_q) THEN 1 ELSE Val(page_q)
        size0 == IF IsNone(page_size_q) THEN DEFAULT_PAGE_SIZE ELSE Val(page_size_q)
        page == validate_page_number(page0)
        page_size == validate_page_size(size0, MAX_PAGE_SIZE)
        start_dt == ParseBound(start_time)
        end_dt == ParseBound(end_time)
        filtered_logs ==
            filter_logs(all, level, component, start_dt.value, end_dt.value)
        paginated == paginate(filtered_logs, page.value, page_size.value)
    IN IF ~QueryConstraints(page0, size0) THEN Reply(422, NoBody, << >>)
       ELSE IF ~page.ok \/ ~page_size.ok THEN Reply(500, NoBody, << >>)
       ELSE IF ~start_dt.ok THEN Reply(400, NoBody, << >>)
       ELSE IF ~end_dt.ok THEN Reply(400, NoBody, << >>)
       ELSE IF RangeInverted(start_dt.value, end_dt.value)
            THEN Reply(400, NoBody, << >>)
       ELSE Reply(200,
                  [total |-> Len(filtered_logs),
                   page |-> page.value,
                   page_size |-> page_size.value,
                   total_pages |-> paginated.total_pages,
                   logs |-> paginated.items],
                  << [fn |-> "filter_logs", level |-> level, component |-> component,
                      start_time |-> start_dt.value, end_time |-> end_dt.value],
                     [fn |-> "paginate", items |-> filtered_logs,
                      page |-> page.value, page_size |-> page_size.value] >>)

\* GET /logs/stats
get_logs_stats(all, start_time, end_time) ==
    LET start_dt == ParseBound(start_time)
        end_dt == ParseBound(end_time)
    IN IF ~start_dt.ok THEN Reply(400, NoBody, << >>)
       ELSE IF ~end_dt.ok THEN Reply(400, NoBody, << >>)
       ELSE IF RangeInverted(start_dt.value, end_dt.value)
            THEN Reply(400, NoBody, << >>)
       ELSE Reply(200, get_statistics(all, start_dt.value, end_dt.value),
                  << [fn |-> "get_statistics",
                      start_time |-> start_dt.value, end_time |-> end_dt.value] >>)

\* GET /logs/{log_id}
get_log_by_id_route(index, log_id) ==
    LET found == get_log_by_id(index, log_id) IN
    IF IsNone(found)
    THEN Reply(404, NoBody, << [fn |-> "get_log_by_id", log_id |-> log_id] >>)
    ELSE Reply(200, Val(found), << [fn |-> "get_log_by_id", log_id |-> log_id] >>)

-----------------------------------------------------------------------------
(* Arguments the callers use. *)

LevelArgs == {None, Some(<< >>), Some(<<"INFO">>)}
ComponentArgs == {None, Some(<< >>), Some(<<"Pay">>)}
TimeArgs == {None, Some(1), Some(2)}
TimeTextArgs ==
    {None, Some(<< >>), Some(<<"x">>), Some(<<"T1">>), Some(<<SP, "T2">>)}
PageArgs == {None, Some(0), Some(2)}
PageSizeArgs == {None, Some(0), Some(1), Some(MAX_PAGE_SIZE + 1)}

\* Every id the loader can produce, and one it never produces.
ProbeIds ==
    { FormatLogId(s, n) : s \in Stems, n \in 0..(MaxLines - 1) } \cup { <<110, 111>> }

ItemLists == { [i \in 1..n |-> i] : n \in 0..MaxItems }

GetLogsRequest(level, start_time, end_time, page, page_size) ==
    [level |-> level, component |-> None, start_time |-> start_time,
     end_time |-> end_time, page |-> page, page_size |-> page_size]

\* GET /logs requests: every pair of time texts with the default page, and
\* every page and page size with no or an unparsable start_time.
GetLogsRequests ==
    { GetLogsRequest(level, start_time, end_time, None, None) :
        level \in {None, Some(<<"INFO">>)},
        start_time \in TimeTextArgs, end_time \in TimeTextArgs }
    \cup
    { GetLogsRequest(None, start_time, None, page, page_size) :
        start_time \in {None, Some(<<"x">>)},
        page \in PageArgs, page_size \in PageSizeArgs }

-----------------------------------------------------------------------------
(* Calls on the constructed service. *)

unchanged_service == <<disk, store_vars, pc, log_files, file_path, line_num,
                       log_entry, constructed, last_load, old>>

\* LogService.get_all_logs, from any thread.
GetAllLogs ==
    /\ constructed
    /\ resp' = [op |-> "get_all_logs", during |-> pc # "idle", result |-> logs]
    /\ UNCHANGED unchanged_service

\* LogService.get_log_by_id, from any thread.
GetLogById ==
    /\ constructed
    /\ \E log_id \in ProbeIds :
           resp' = [op |-> "get_log_by_id", during |-> pc # "idle",
                    log_id |-> log_id, result |-> get_log_by_id(log_index, log_id)]
    /\ UNCHANGED unchanged_service

FilterLogs ==
    /\ constructed /\ pc = "idle"
    /\ \E level \in LevelArgs, component \in ComponentArgs,
          start_time \in TimeArgs, end_time \in TimeArgs :
           resp' = [op |-> "filter_logs", level |-> level, component |-> component,
                    start_time |-> start_time, end_time |-> end_time,
                    result |-> filter_logs(logs, level, component, start_time, end_time)]
    /\ UNCHANGED unchanged_service

GetStatistics ==
    /\ constructed /\ pc = "idle"
    /\ \E start_time \in TimeArgs, end_time \in TimeArgs :
           resp' = [op |-> "get_statistics",
                    start_time |-> start_time, end_time |-> end_time,
                    result |-> get_statistics(logs, start_time, end_time)]
    /\ UNCHANGED unchanged_service

Paginate ==
    /\ constructed /\ pc = "idle"
    /\ \E items \in ItemLists, page \in 1..MaxPage, page_size \in 1..MaxPageSizeArg :
           resp' = [op |-> "paginate", items |-> items, page |-> page,
                    page_size |-> page_size,
                    result |-> paginate(items, page, page_size)]
    /\ UNCHANGED unchanged_service

HandleGetLogs ==
    /\ constructed /\ pc = "idle"
    /\ \E q \in GetLogsRequests :
           resp' = [op |-> "GET /logs", query |-> q,
                    reply |-> get_logs(logs, q.level, q.component, q.start_time,
                                       q.end_time, q.page, q.page_size)]
    /\ UNCHANGED unchanged_service

HandleGetLogsStats ==
    /\ constructed /\ pc = "idle"
    /\ \E start_time \in TimeTextArgs, end_time \in TimeTextArgs :
           resp' = [op |-> "GET /logs/stats",
                    query |-> [start_time |-> start_time, end_time |-> end_time],
                    reply |-> get_logs_stats(logs, start_time, end_time)]
    /\ UNCHANGED unchanged_service

HandleGetLogById ==
    /\ constructed /\ pc = "idle"
    /\ \E log_id \in ProbeIds :
           resp' = [op |-> "GET /logs/{log_id}", log_id |-> log_id,
                    reply |-> get_log_by_id_route(log_index, log_id)]
    /\ UNCHANGED unchanged_service

-----------------------------------------------------------------------------
(* The service as main.py deploys it: handlers run one at a time on the    *)
(* event loop, and reload_logs runs to its end before the next call.       *)

Next ==
    \/ Load
    \/ ReloadLogs
    \/ HandleGetLogById

Spec == Init /\ [][Next]_vars

(* reload_logs called from a second thread while requests are served. *)

\* Directories of one readable file.
SmallDisks ==
    { d \in Disks : DOMAIN d = {<<97>>} /\ d[<<97>>].fault = "none" }

InitSmall ==
    /\ Init
    /\ disk \in SmallDisks

NextConcurrent ==
    \/ Load
    \/ ReloadLogs
    \/ GetAllLogs
    \/ GetLogById

SpecConcurrent == InitSmall /\ [][NextConcurrent]_vars

(* The query engine and the aggregator over a loaded store. *)

NextQuery ==
    \/ Load
    \/ FilterLogs
    \/ GetStatistics

SpecQuery == InitSmall /\ [][NextQuery]_vars

(* The two query routes over a loaded store. *)

NextApi ==
    \/ Load
    \/ HandleGetLogs
    \/ HandleGetLogsStats

SpecApi == InitSmall /\ [][NextApi]_vars

(* Reloads of a directory whose files are replaced between them. *)

NextReload ==
    \/ Load
    \/ ReloadLogs
    \/ FilesReplaced

SpecReload == Init /\ [][NextReload]_vars

(* The paginator on its own, on a service over an empty directory. *)

InitPaginate ==
    /\ disk = << >>
    /\ logs = << >>
    /\ log_index = EmptyDict
    /\ component_index = EmptyDict
    /\ level_index = EmptyDict
    /\ pc = "idle"
    /\ log_files = << >>
    /\ file_path = None
    /\ line_num = 0
    /\ log_entry = None
    /\ constructed = TRUE
    /\ last_load = "completed"
    /\ old = None
    /\ resp = [op |-> "none"]

NextPaginate == Paginate

SpecPaginate == InitPaginate /\ [][NextPaginate]_vars

-----------------------------------------------------------------------------
(* Properties of the loader and the record store. *)

LoadCompleted == pc = "idle" /\ last_load = "completed"

\* The stripped line has four or more tab-separated fields and its first
\* field is a timestamp text: stated on the tokens, without splitting.
WellFormed(raw) ==
    LET line == Strip(raw) IN
    /\ Cardinality({ i \in 1..Len(line) : line[i] = TAB }) >= 3
    /\ Len(line) >= 2
    /\ line[1] \in TimestampTexts
    /\ line[2] = TAB

Blank(raw) == \A i \in 1..Len(raw) : raw[i] \in Whitespace

\* The instants of the well-formed lines of a file, in line order.
RECURSIVE WellFormedClocks(_)
WellFormedClocks(lines) ==
    IF lines = << >> THEN << >>
    ELSE LET rest == WellFormedClocks(SubSeq(lines, 1, Len(lines) - 1))
             last == lines[Len(lines)]
         IN IF WellFormed(last) THEN Append(rest, ClockOf(Strip(last)[1])) ELSE rest

IdsOf(stem) == { stem \o <<95, 48 + n>> : n \in 0..9 }

\* The records of a list that come from the file with this stem.
RecordsFrom(items, stem) ==
    LET Test(r) == r.log_id \in IdsOf(stem) IN SelectSeq(items, Test)

Clocks(items) == [i \in 1..Len(items) |-> items[i].timestamp]

RECURSIVE SumLen(_, _)
SumLen(d, S) ==
    IF S = {} THEN 0
    ELSE LET s == CHOOSE x \in S : TRUE
         IN Len(WellFormedClocks(d[s].lines)) + SumLen(d, S \ {s})

\* C1: a read made while reload_logs runs returns what the store held before
\* the reload or what it holds after it, never a state in between.  Stated
\* when the reload has ended, over the last read made during it.
C1_ReadsSeeOneGeneration ==
    /\ (LoadCompleted /\ resp.op = "get_all_logs" /\ resp.during)
           => resp.result \in {Val(old).logs, logs}
    /\ (LoadCompleted /\ resp.op = "get_log_by_id" /\ resp.during)
           => resp.result \in {get_log_by_id(Val(old).log_index, resp.log_id),
                               get_log_by_id(log_index, resp.log_id)}

\* C2: after a completed load every file that was read to its end has given
\* exactly the records of its well-formed lines, in line order, whatever
\* malformed or blank lines stand between them; with every file readable the
\* store holds nothing else.
C2_MalformedLinesSkipped ==
    LoadCompleted =>
        /\ \A stem \in DOMAIN disk :
               disk[stem].fault = "none" =>
                   Clocks(RecordsFrom(logs, stem)) = WellFormedClocks(disk[stem].lines)
        /\ (\A stem \in DOMAIN disk : disk[stem].fault = "none")
               => Len(logs) = SumLen(disk, DOMAIN disk)

\* A completed load of two readable files: the only line of the first is
\* malformed, and the well-formed line of the second was loaded.
C2_Witness ==
    /\ LoadCompleted
    /\ DOMAIN disk = Stems
    /\ \A stem \in Stems : disk[stem].fault = "none"
    /\ Len(disk[<<97>>].lines) = 1
    /\ ~WellFormed(disk[<<97>>].lines[1]) /\ ~Blank(disk[<<97>>].lines[1])
    /\ Len(disk[<<97, 95, 48>>].lines) = 1
    /\ WellFormed(disk[<<97, 95, 48>>].lines[1])
    /\ Len(logs) = 1

\* No record of the list or of an index comes from the file with this stem.
NothingFrom(stem) ==
    /\ RecordsFrom(logs, stem) = << >>
    /\ \A id \in DOMAIN log_index : id \notin IdsOf(stem)
    /\ \A c \in DOMAIN component_index : RecordsFrom(component_index[c], stem) = << >>
    /\ \A l \in DOMAIN level_index : RecordsFrom(level_index[l], stem) = << >>

\* C3: whenever a load has ended it has completed; a file that could not be
\* opened or failed while being read has given no record to the list or to
\* an index, and every other file has given its records.
C3_FaultyFileSkippedEntirely ==
    (pc \in {"idle", "failed"}) =>
        /\ last_load = "completed"
        /\ \A stem \in DOMAIN disk :
               IF disk[stem].fault = "none"
               THEN Clocks(RecordsFrom(logs, stem)) = WellFormedClocks(disk[stem].lines)
               ELSE NothingFrom(stem)

\* C10: after a completed load or reload the ids of the list are pairwise
\* different, looking up the id of a stored record gives that record, and
\* looking up any other id gives None; the route answers 200 with the record
\* or 404.
C10_LookupById ==
    /\ LoadCompleted =>
           /\ \A i, j \in 1..Len(logs) : logs[i].log_id = logs[j].log_id => i = j
           /\ \A i \in 1..Len(logs) :
                  /\ get_log_by_id(log_index, logs[i].log_id) = Some(logs[i])
                  /\ get_log_by_id_route(log_index, logs[i].log_id).status = 200
                  /\ get_log_by_id_route(log_index, logs[i].log_id).body = logs[i]
           /\ \A id \in ProbeIds :
                  (\A i \in 1..Len(logs) : logs[i].log_id # id) =>
                      /\ get_log_by_id(log_index, id) = None
                      /\ get_log_by_id_route(log_index, id).status = 404
    /\ (LoadCompleted /\ resp.op = "GET /logs/{log_id}") =>
           IF \E i \in 1..Len(logs) : logs[i].log_id = resp.log_id
           THEN resp.reply.status = 200 /\ resp.reply.body \in Range(logs)
                /\ resp.reply.body.log_id = resp.log_id
           ELSE resp.reply.status = 404

\* After a reload of two files with a record each, a stored id was looked up.
C10_Witness ==
    /\ LoadCompleted
    /\ old # None
    /\ Len(logs) = 2
    /\ RecordsFrom(logs, <<97>>) # << >>
    /\ RecordsFrom(logs, <<97, 95, 48>>) # << >>
    /\ resp.op = "GET /logs/{log_id}"
    /\ resp.reply.status = 200
    /\ resp.log_id = logs[2].log_id

-----------------------------------------------------------------------------
(* Properties of the query engine, the aggregator and the paginator. *)

\* The records of `all` that meet every constraint, in the order of `all`.
\* A constraint is None (no constraint) or Some(value).
Matching(all, level, component, start_time, end_time) ==
    LET Test(r) ==
            /\ IsNone(level) \/ r.level = Val(level)
            /\ IsNone(component) \/ r.component = Val(component)
            /\ IsNone(start_time) \/ r.timestamp >= Val(start_time)
            /\ IsNone(end_time) \/ r.timestamp <= Val(end_time)
    IN SelectSeq(all, Test)

\* A text criterion given as the empty string read as no criterion.
EmptyAsAbsent(o) == IF o = Some(<< >>) THEN None ELSE o

\* C4 as stated: filter_logs returns the records of the list that meet every
\* criterion that is given (not None), in list order.
C4_FilterExactAsStated ==
    resp.op = "filter_logs" =>
        resp.result = Matching(logs, resp.level, resp.component,
                               resp.start_time, resp.end_time)

\* C4 amended: filter_logs returns, in list order, exactly the records of the
\* list that meet every criterion that is given, where a tag or category given
\* as the empty string counts as not given; the result may be empty.
C4_FilterExact ==
    resp.op = "filter_logs" =>
        resp.result = Matching(logs, EmptyAsAbsent(resp.level),
                               EmptyAsAbsent(resp.component),
                               resp.start_time, resp.end_time)

\* A filter on tag and both time bounds kept one of two records, the one
\* whose timestamp is equal to both bounds.
C4_Witness ==
    /\ resp.op = "filter_logs"
    /\ resp.level = Some(<<"INFO">>)
    /\ resp.start_time = Some(1) /\ resp.end_time = Some(1)
    /\ Len(logs) = 2
    /\ Len(resp.result) = 1
    /\ resp.result[1].timestamp = 1

\* C5: paginate returns total_pages = ceil(L / page_size), 0 for L = 0, and the
\* elements at positions (page-1)*page_size .. (page-1)*page_size + page_size - 1
\* that exist, which are none when (page-1)*page_size >= L.
C5_Paginate ==
    resp.op = "paginate" =>
        LET L == Len(resp.items)
            first == (resp.page - 1) * resp.page_size
            n == IF first >= L THEN 0 ELSE Min(resp.page_size, L - first)
            got == resp.result
        IN /\ got.total_pages * resp.page_size >= L
           /\ (got.total_pages - 1) * resp.page_size < L
           /\ got.total_pages >= 0
           /\ (L = 0 => got.total_pages = 0)
           /\ Len(got.items) = n
           /\ Len(got.items) <= resp.page_size
           /\ \A k \in 1..n : got.items[k] = resp.items[first + k]

\* Page 3 of size 10 of a list of 5: an empty slice and one page in all.
C5_Witness ==
    /\ resp.op = "paginate"
    /\ Len(resp.items) = 5 /\ resp.page = 3 /\ resp.page_size = 10
    /\ resp.result.items = << >>
    /\ resp.result.total_pages = 1

RECURSIVE SumOver(_, _)
SumOver(f, S) ==
    IF S = {} THEN 0
    ELSE LET k == CHOOSE x \in S : TRUE IN f[k] + SumOver(f, S \ {k})

SumValues(f) == SumOver(f, DOMAIN f)

\* C6: the values of level_counts add up to total_entries, so do those of
\* component_counts, and no count is below 1.
C6_CountsAddUp ==
    resp.op = "get_statistics" =>
        LET st == resp.result IN
        /\ SumValues(st.level_counts) = st.total_entries
        /\ SumValues(st.component_counts) = st.total_entries
        /\ \A l \in DOMAIN st.level_counts : st.level_counts[l] >= 1
        /\ \A c \in DOMAIN st.component_counts : st.component_counts[c] >= 1
        /\ st.total_entries =
               Len(Matching(logs, None, None, resp.start_time, resp.end_time))

\* Statistics over two records with the same tag, category and timestamp.
C6_Witness ==
    /\ resp.op = "get_statistics"
    /\ resp.result.total_entries = 2
    /\ logs[1].timestamp = logs[2].timestamp
    /\ \E l \in DOMAIN resp.result.level_counts : resp.result.level_counts[l] = 2

\* C7: earliest and latest are the least and the greatest timestamp of the
\* records within the time range, and both are None exactly when there is none.
C7_TimeRange ==
    resp.op = "get_statistics" =>
        LET T == { r.timestamp :
                     r \in Range(Matching(logs, None, None,
                                          resp.start_time, resp.end_time)) }
            tr == resp.result.time_range
        IN IF T = {}
           THEN tr.earliest = None /\ tr.latest = None
           ELSE /\ tr.earliest # None /\ tr.latest # None
                /\ Val(tr.earliest) \in T /\ \A t \in T : Val(tr.earliest) <= t
                /\ Val(tr.latest) \in T /\ \A t \in T : Val(tr.latest) >= t

\* Statistics over a list whose first record is later than its second.
C7_Witness ==
    /\ resp.op = "get_statistics"
    /\ Len(logs) = 2
    /\ logs[1].timestamp > logs[2].timestamp
    /\ resp.result.time_range.earliest = Some(logs[2].timestamp)
    /\ resp.result.time_range.latest = Some(logs[1].timestamp)

-----------------------------------------------------------------------------
(* Properties of the request handlers. *)

\* The text is one timestamp text with nothing but whitespace around it.
Parsable(text) ==
    \E i \in 1..Len(text) :
        /\ text[i] \in TimestampTexts
        /\ \A j \in (1..Len(text)) \ {i} : text[j] \in Whitespace

InstantOf(text) ==
    ClockOf(text[CHOOSE i \in 1..Len(text) : text[i] \in TimestampTexts])

QueryRoutes == {"GET /logs", "GET /logs/stats"}

\* Both bounds are parsable texts and the start is strictly after the end.
StartAfterEnd(q) ==
    /\ q.start_time # None /\ Parsable(Val(q.start_time))
    /\ q.end_time # None /\ Parsable(Val(q.end_time))
    /\ InstantOf(Val(q.start_time)) > InstantOf(Val(q.end_time))

StartEqualsEnd(q) ==
    /\ q.start_time # None /\ Parsable(Val(q.start_time))
    /\ q.end_time # None /\ Parsable(Val(q.end_time))
    /\ InstantOf(Val(q.start_time)) = InstantOf(Val(q.end_time))

\* The page and page size of a GET /logs request, with the defaults filled in.
PageOf(q) == IF q.page = None THEN 1 ELSE Val(q.page)
PageSizeOf(q) == IF q.page_size = None THEN DEFAULT_PAGE_SIZE ELSE Val(q.page_size)

PagingValid(r) ==
    r.op = "GET /logs" => (PageOf(r.query) >= 1 /\ PageSizeOf(r.query) >= 1)

\* C8 as stated: a request whose start_time or end_time is given and is not a
\* parsable timestamp, or whose start_time is strictly after its end_time, is
\* answered 400 without a call to the service; one with start_time equal to
\* end_time is not rejected.
C8_BadTimesRejectedAsStated ==
    resp.op \in QueryRoutes =>
        LET q == resp.query IN
        /\ ( \/ (q.start_time # None /\ ~Parsable(Val(q.start_time)))
             \/ (q.end_time # None /\ ~Parsable(Val(q.end_time)))
             \/ StartAfterEnd(q) )
               => (resp.reply.status = 400 /\ resp.reply.calls = << >>)
        /\ (StartEqualsEnd(q) /\ PagingValid(resp)) => resp.reply.status = 200

\* C8 amended: a request whose start_time or end_time is a non-empty text that
\* is not a parsable timestamp, or whose start_time is strictly after its
\* end_time, is rejected without a call to the service: with 400, or with 422
\* when its page or page_size is below 1.  An empty start_time or end_time is
\* read as absent.  A request with start_time equal to end_time is not rejected.
C8_BadTimesRejected ==
    resp.op \in QueryRoutes =>
        LET q == resp.query
            start_time == EmptyAsAbsent(q.start_time)
            end_time == EmptyAsAbsent(q.end_time)
            bad == \/ (start_time # None /\ ~Parsable(Val(start_time)))
                   \/ (end_time # None /\ ~Parsable(Val(end_time)))
                   \/ StartAfterEnd(q)
        IN /\ bad => /\ resp.reply.status = IF PagingValid(resp) THEN 400 ELSE 422
                     /\ resp.reply.calls = << >>
           /\ (~bad /\ PagingValid(resp)) =>
                  /\ resp.reply.status = 200
                  /\ resp.reply.calls # << >>
                  /\ resp.reply.calls[1].start_time =
                         (IF start_time = None THEN None
                          ELSE Some(InstantOf(Val(start_time))))
                  /\ resp.reply.calls[1].end_time =
                         (IF end_time = None THEN None
                          ELSE Some(InstantOf(Val(end_time))))

\* A statistics request with a padded start_time after its end_time got 400.
C8_Witness ==
    /\ resp.op = "GET /logs/stats"
    /\ resp.query.start_time = Some(<<SP, "T2">>)
    /\ resp.query.end_time = Some(<<"T1">>)
    /\ resp.reply.status = 400
    /\ resp.reply.calls = << >>
    /\ logs # << >>

\* C9: a GET /logs request with page or page_size below 1 is answered 422
\* without a call to the service; a page_size above MAX_PAGE_SIZE is not a
\* reason to reject, and the reply reports MAX_PAGE_SIZE in its place;
\* paginate is called only with page >= 1 and 1 <= page_size <= MAX_PAGE_SIZE,
\* and a page holds at most MAX_PAGE_SIZE records.
C9_PageSizeClamped ==
    resp.op = "GET /logs" =>
        LET q == resp.query
            r == resp.reply
        IN /\ (PageOf(q) < 1 \/ PageSizeOf(q) < 1) => (r.status = 422 /\ r.calls = << >>)
           /\ (PageOf(q) >= 1 /\ PageSizeOf(q) >= 1) => r.status \in {200, 400}
           /\ (PageOf(q) >= 1 /\ PageSizeOf(q) > MAX_PAGE_SIZE /\ q.start_time = None)
                  => r.status = 200
           /\ r.status = 200 =>
                  /\ r.body.page = PageOf(q)
                  /\ r.body.page_size = Min(PageSizeOf(q), MAX_PAGE_SIZE)
                  /\ Len(r.body.logs) <= MAX_PAGE_SIZE
                  /\ Len(r.body.logs) <= r.body.page_size
           /\ \A i \in 1..Len(r.calls) :
                  r.calls[i].fn = "paginate" =>
                      /\ r.calls[i].page >= 1
                      /\ r.calls[i].page_size >= 1
                      /\ r.calls[i].page_size <= MAX_PAGE_SIZE

\* A request for a page of MAX_PAGE_SIZE + 1 records was served with MAX_PAGE_SIZE.
C9_Witness ==
    /\ resp.op = "GET /logs"
    /\ resp.query.page_size = Some(MAX_PAGE_SIZE + 1)
    /\ resp.reply.status = 200
    /\ resp.reply.body.page_size = MAX_PAGE_SIZE
    /\ resp.reply.calls[2].fn = "paginate"
    /\ resp.reply.calls[2].page_size = MAX_PAGE_SIZE
    /\ logs # << >>

-----------------------------------------------------------------------------
(* Properties of record ids and messages. *)

Ids(items) == [i \in 1..Len(items) |-> items[i].log_id]

\* The id of the line at 0-based position k of the file with this stem.
IdAt(stem, k) == stem \o <<95, 48 + k>>

\* The ids of the well-formed lines of a file, each numbered by its 0-based
\* position among all the lines of the file.
RECURSIVE IdsByLinePosition(_, _)
IdsByLinePosition(stem, lines) ==
    IF lines = << >> THEN << >>
    ELSE LET rest == IdsByLinePosition(stem, SubSeq(lines, 1, Len(lines) - 1))
         IN IF WellFormed(lines[Len(lines)])
            THEN Append(rest, IdAt(stem, Len(lines) - 1))
            ELSE rest

\* The number of non-blank lines among the first n lines.
NonBlankAmong(lines, n) == Cardinality({ i \in 1..n : ~Blank(lines[i]) })

\* The ids of the well-formed lines of a file, each numbered by the count of
\* non-blank lines before it.
RECURSIVE IdsByNonBlankCount(_, _)
IdsByNonBlankCount(stem, lines) ==
    IF lines = << >> THEN << >>
    ELSE LET rest == IdsByNonBlankCount(stem, SubSeq(lines, 1, Len(lines) - 1))
         IN IF WellFormed(lines[Len(lines)])
            THEN Append(rest, IdAt(stem, NonBlankAmong(lines, Len(lines) - 1)))
            ELSE rest

\* C11 as stated: blank lines do not advance the index of a record's id; the
\* id of a record is its file's stem and the number of non-blank lines before
\* its line, so [valid, blank, valid] in a.log gives a_0 and a_1.
C11_IdsCountNonBlankLines ==
    LoadCompleted =>
        \A stem \in DOMAIN disk :
            Ids(RecordsFrom(logs, stem)) = IdsByNonBlankCount(stem, disk[stem].lines)

\* C11 amended: every line of the file advances the index, blank and
\* malformed lines too; the id of a record is its file's stem and the 0-based
\* position of its line among all the lines of the file.
C11_IdsUseLinePosition ==
    LoadCompleted =>
        \A stem \in DOMAIN disk :
            Ids(RecordsFrom(logs, stem)) = IdsByLinePosition(stem, disk[stem].lines)

\* a.log is a blank line followed by a well-formed line, loaded as a_1.
C11_Witness ==
    /\ LoadCompleted
    /\ DOMAIN disk = {<<97>>}
    /\ Len(disk[<<97>>].lines) = 2
    /\ Blank(disk[<<97>>].lines[1])
    /\ WellFormed(disk[<<97>>].lines[2])
    /\ Ids(logs) = << <<97, 95, 49>> >>

\* The text after the n-th tab of a line.
RECURSIVE AfterTabs(_, _)
AfterTabs(line, n) ==
    IF n = 0 \/ line = << >> THEN line
    ELSE AfterTabs(Tail(line), IF Head(line) = TAB THEN n - 1 ELSE n)

\* The file a record was loaded from and the line it was parsed from.
StemOf(r) == CHOOSE stem \in Stems : r.log_id \in IdsOf(stem)
LineOf(r) == disk[StemOf(r)].lines[r.log_id[Len(r.log_id)] - 48 + 1]

\* C12: the message of a record parsed from a line of four or more fields
\* with a valid timestamp is all the text of the line after its third tab,
\* further tabs and the text after them included.
C12_MessageIsRemainder ==
    LoadCompleted =>
        \A i \in 1..Len(logs) :
            logs[i].message = AfterTabs(Strip(LineOf(logs[i])), 3)

-----------------------------------------------------------------------------
(* Properties of reloading. *)

\* The reply of GET /logs to a request over a given record list.
ReplyTo(all, q) ==
    get_logs(all, q.level, q.component, q.start_time, q.end_time, q.page, q.page_size)

\* C13: the files do not change, and after every completed reload the record
\* list and the three indexes are equal to those the store held when the
\* reload began, which are those of the first load; a GET /logs request with
\* any tag, start, page and page size gets the same page, total and
\* total_pages from both.
C13_ReloadIdempotent ==
    (LoadCompleted /\ old # None) =>
        /\ logs = Val(old).logs
        /\ log_index = Val(old).log_index
        /\ component_index = Val(old).component_index
        /\ level_index = Val(old).level_index
        /\ \A q \in GetLogsRequests :
               q.end_time = None => ReplyTo(logs, q) = ReplyTo(Val(old).logs, q)

\* A reload of a store of two records has completed and nothing was asked since.
C13_Witness ==
    /\ LoadCompleted
    /\ old # None
    /\ resp.op = "reload_logs"
    /\ Len(logs) = 2
    /\ Len(Val(old).logs) = 2
    /\ DOMAIN log_index = {logs[1].log_id, logs[2].log_id}

-----------------------------------------------------------------------------
(* Properties of the order of the record list and of the indexes. *)

\* The 0-based position in its file of the line a record was parsed from.
PositionOf(r) == r.log_id[Len(r.log_id)] - 48

\* C14: after a completed load, of any two records of the list the earlier
\* one comes from a file whose name is lexicographically smaller, or from the
\* same file and from an earlier line; a load of a directory without files
\* ends without error and leaves the list empty.
C14_AppendOrder ==
    /\ LoadCompleted =>
           \A i, j \in 1..Len(logs) :
               i < j =>
                   \/ LexLess(NameOf(StemOf(logs[i])), NameOf(StemOf(logs[j])))
                   \/ /\ StemOf(logs[i]) = StemOf(logs[j])
                      /\ PositionOf(logs[i]) < PositionOf(logs[j])
    /\ (DOMAIN disk = {} /\ pc \in {"idle", "failed"}) =>
           (LoadCompleted /\ logs = << >>)

\* Both files gave a record: the one of a.log stands before the one of a_0.log.
C14_Witness ==
    /\ LoadCompleted
    /\ Len(logs) = 2
    /\ StemOf(logs[1]) = <<97>>
    /\ StemOf(logs[2]) = <<97, 95, 48>>
    /\ LexLess(NameOf(<<97>>), NameOf(<<97, 95, 48>>))

\* The only file gave two records, in the order of their lines.
C14_WitnessSameFile ==
    /\ LoadCompleted
    /\ Len(logs) = 2
    /\ StemOf(logs[1]) = StemOf(logs[2])
    /\ PositionOf(logs[1]) = 0 /\ PositionOf(logs[2]) = 1

\* The load of a directory without files has completed.
C14_WitnessEmptyDirectory == LoadCompleted /\ DOMAIN disk = {} /\ logs = << >>

\* The values a field takes in the records of a list.
LevelsOf(items) == { items[i].level : i \in 1..Len(items) }
ComponentsOf(items) == { items[i].component : i \in 1..Len(items) }

\* C15: after every completed load or reload the identifier index has one
\* entry per record of the list and no other, mapping the record's id to the
\* record; the category index has an entry for exactly the categories of the
\* list, each the records of that category in list order; and so has the tag
\* index for the tags.
C15_IndexesConsistent ==
    LoadCompleted =>
        /\ DOMAIN log_index = { logs[i].log_id : i \in 1..Len(logs) }
        /\ Cardinality(DOMAIN log_index) = Len(logs)
        /\ \A i \in 1..Len(logs) : log_index[logs[i].log_id] = logs[i]
        /\ DOMAIN component_index = ComponentsOf(logs)
        /\ \A c \in DOMAIN component_index :
               component_index[c] = Matching(logs, None, Some(c), None, None)
        /\ DOMAIN level_index = LevelsOf(logs)
        /\ \A l \in DOMAIN level_index :
               level_index[l] = Matching(logs, Some(l), None, None, None)

\* A reload after the files were replaced: the store before it had two
\* records and a category that the store after it, which has a record, lacks.
C15_Witness ==
    /\ LoadCompleted
    /\ old # None
    /\ Len(Val(old).logs) = 2
    /\ Len(logs) = 1
    /\ \E c \in DOMAIN Val(old).component_index : c \notin DOMAIN component_index
    /\ \E l \in DOMAIN Val(old).level_index : l \notin DOMAIN level_index
    /\ logs[1].log_id \in DOMAIN Val(old).log_index

-----------------------------------------------------------------------------
(* Properties of a criterion given as the empty string. *)

EmptyText == Some(<< >>)

\* C16 as stated: a criterion that is given is applied as equality whatever
\* its value; filter_logs with the tag given as the empty string returns
\* exactly the records whose tag is empty, and so for the category.
C16_EmptyCriterionApplied ==
    resp.op = "filter_logs" =>
        /\ resp.level = EmptyText =>
               \A i \in 1..Len(resp.result) : resp.result[i].level = << >>
        /\ resp.component = EmptyText =>
               \A i \in 1..Len(resp.result) : resp.result[i].component = << >>

\* C16 amended: a tag or category that is given and is not the empty string
\* is applied as exact equality; one given as the empty string leaves the
\* field unconstrained, as an absent one does, so that filter_logs with the
\* tag given as the empty string returns the records of every tag that meet
\* the other criteria, and so for the category.
C16_EmptyCriterionUnconstrained ==
    resp.op = "filter_logs" =>
        /\ resp.level \notin {None, EmptyText} =>
               \A i \in 1..Len(resp.result) : resp.result[i].level = Val(resp.level)
        /\ resp.component \notin {None, EmptyText} =>
               \A i \in 1..Len(resp.result) :
                   resp.result[i].component = Val(resp.component)
        /\ resp.level = EmptyText =>
               resp.result = Matching(logs, None, EmptyAsAbsent(resp.component),
                                      resp.start_time, resp.end_time)
        /\ resp.component = EmptyText =>
               resp.result = Matching(logs, EmptyAsAbsent(resp.level), None,
                                      resp.start_time, resp.end_time)

\* filter_logs with the empty string as its only criterion, the tag, over a
\* record with an empty tag and a record with a tag: both were returned.
C16_Witness ==
    /\ resp.op = "filter_logs"
    /\ resp.level = EmptyText
    /\ resp.component = None /\ resp.start_time = None /\ resp.end_time = None
    /\ Len(logs) = 2
    /\ LevelsOf(logs) = { << >>, <<"INFO">> }
    /\ resp.result = logs

====
